---- MODULE Spec2Model ----
(***************************************************************************)
(* Turkish language analyzer (sDict): POST /analyze takes a sentence and a *)
(* word, looks the word up in the TDK dictionary, builds a reduced context *)
(* for the AI provider, calls it, and merges both results.                 *)
(*                                                                         *)
(* One request is followed from its arrival to its response.  Requests     *)
(* share no mutable state, so a behaviour holds a single request.          *)
(***************************************************************************)
EXTENDS Integers, Sequences, FiniteSets, TLC

\* Longest provider answer (number of entries tdk.gts.search returns).
MaxEntries == 2

\* HTTP status codes used by the handlers.
OK == 200
BAD_REQUEST == 400
INTERNAL_SERVER_ERROR == 500

-----------------------------------------------------------------------------
(* JSON values.  A scalar held under a key is a tagged record; a whole     *)
(* document (request body, AI reply) is a record giving its kind and, per  *)
(* kind, its content.  A Python dict is a function from keys to values.    *)

JStr(s) == [t |-> "str", s |-> s]
JNum(s) == [t |-> "num", s |-> s]

EmptyDict == <<>>

JDoc(kind, obj, items, num) == [kind |-> kind, obj |-> obj, items |-> items, num |-> num]
JNull == JDoc("null", EmptyDict, <<>>, 0)
JBool(b) == JDoc(IF b THEN "true" ELSE "false", EmptyDict, <<>>, 0)
JNumber(n) == JDoc("number", EmptyDict, <<>>, n)
\* A string document is kept as its sequence of tokens (words and blanks).
JString(tokens) == JDoc("string", EmptyDict, tokens, 0)
JArray(items) == JDoc("array", EmptyDict, items, 0)
JObject(obj) == JDoc("object", obj, <<>>, 0)

\* Python truth value of a parsed JSON document (the operand of `not data`).
Truthy(data) ==
    CASE data.kind = "null" -> FALSE
      [] data.kind = "false" -> FALSE
      [] data.kind = "true" -> TRUE
      [] data.kind = "number" -> data.num # 0
      [] data.kind = "string" -> data.items # <<>>
      [] data.kind = "array" -> data.items # <<>>
      [] data.kind = "object" -> DOMAIN data.obj # {}

\* Whether `key in data` can be evaluated at all: int and bool are not containers.
SupportsIn(data) == data.kind \in {"string", "array", "object"}

\* `key in data`: key of a dict, element of a list, substring of a string.
Contains(data, key) ==
    IF data.kind = "object"
    THEN key \in DOMAIN data.obj
    ELSE \E i \in 1..Len(data.items) : data.items[i] = key

\* Python's {**a, **b}: keys of both, the later operand winning.
DictMerge(a, b) ==
    [k \in DOMAIN a \cup DOMAIN b |-> IF k \in DOMAIN b THEN b[k] ELSE a[k]]

-----------------------------------------------------------------------------
(* The dictionary provider's data: entries, meanings, properties.          *)

NoLanguage == [none |-> TRUE]
Languages == {NoLanguage, [name |-> "Arabic"]}

\* A property of a meaning; some provider properties carry no `value`.
PropWithValue(n) == [has_value |-> TRUE, full_name |-> n]
PropWithoutValue == [has_value |-> FALSE, full_name |-> ""]

MeaningPool ==
    { [order |-> 1, meaning |-> "sevincli", properties |-> <<PropWithValue("sifat")>>],
      [order |-> 2, meaning |-> "talihli",
       properties |-> <<PropWithoutValue, PropWithValue("isim")>>] }

\* Meaning lists of an entry: the pool's meanings in any order, none repeated.
MeaningLists ==
    { ms \in UNION { [1..n -> MeaningPool] : n \in 0..Cardinality(MeaningPool) } :
        \A i, j \in 1..Len(ms) : i # j => ms[i] # ms[j] }

Entries ==
    [meanings : MeaningLists, origin_language : Languages,
     plural : BOOLEAN, proper : BOOLEAN]

SeqsUpTo(S, n) == UNION { [1..k -> S] : k \in 0..n }

\* Every answer tdk.gts.search can give, up to MaxEntries entries.
Answers == SeqsUpTo(Entries, MaxEntries)

-----------------------------------------------------------------------------
(* TDKService.get_data                                                     *)

RECURSIVE PropertyNames(_)
PropertyNames(props) ==
    IF props = <<>> THEN <<>>
    ELSE (IF Head(props).has_value THEN <<Head(props).full_name>> ELSE <<>>)
         \o PropertyNames(Tail(props))

DefinitionOf(meaning) ==
    [number |-> meaning.order,
     meaning |-> meaning.meaning,
     properties |-> PropertyNames(meaning.properties)]

RECURSIVE DefinitionsOfMeanings(_)
DefinitionsOfMeanings(meanings) ==
    IF meanings = <<>> THEN <<>>
    ELSE <<DefinitionOf(Head(meanings))>> \o DefinitionsOfMeanings(Tail(meanings))

\* Variant: the entries are gathered last to first.
RECURSIVE DefinitionsReversed(_)
DefinitionsReversed(tdk_answer) ==
    IF tdk_answer = <<>> THEN <<>>
    ELSE DefinitionsReversed(Tail(tdk_answer))
         \o DefinitionsOfMeanings(Head(tdk_answer).meanings)

RECURSIVE Definitions(_)
Definitions(tdk_answer) ==
    IF tdk_answer = <<>> THEN <<>>
    ELSE DefinitionsOfMeanings(Head(tdk_answer).meanings) \o Definitions(Tail(tdk_answer))

Origin(tdk_answer) ==
    IF tdk_answer[1].origin_language # NoLanguage
    THEN tdk_answer[1].origin_language.name
    ELSE "Unspecified"

\* Variant: plural as soon as any entry is plural.
PluralityAnyEntry(tdk_answer) ==
    IF \E i \in 1..Len(tdk_answer) : tdk_answer[i].plural THEN "Plural" ELSE "Singular"

Plurality(tdk_answer) == IF tdk_answer[1].plural THEN "Plural" ELSE "Singular"

ProperNoun(tdk_answer) == IF tdk_answer[1].proper THEN "Proper Noun" ELSE "Common Noun"

\* The dict get_data returns for a non-empty answer.
get_data(tdk_answer) ==
    [definitions |-> Definitions(tdk_answer),
     origin |-> Origin(tdk_answer),
     plurality |-> Plurality(tdk_answer),
     proper_noun |-> ProperNoun(tdk_answer)]

-----------------------------------------------------------------------------
(* LanguageAnalyzer.analyze: context building and response merge           *)

RECURSIVE PromptDefinitions(_)
PromptDefinitions(definitions) ==
    IF definitions = <<>> THEN <<>>
    ELSE <<[number |-> Head(definitions).number, meaning |-> Head(definitions).meaning]>>
         \o PromptDefinitions(Tail(definitions))

\* Variant: the lookup's definitions are handed over whole.
ContextUnreduced(s, w, td) ==
    [sentence |-> s,
     word |-> w,
     dictionary |-> [definitions |-> td.definitions]]

\* The context handed to AIService.analyze.
Context(s, w, td) ==
    [sentence |-> s,
     word |-> w,
     dictionary |-> [definitions |-> PromptDefinitions(td.definitions)]]

\* Variant: {"dictionary": {...}, **ai_response}, the AI reply's keys winning.
MergeResponseAIWins(ai, td) ==
    DictMerge("dictionary" :> [definitions |-> td.definitions,
                               origin |-> td.origin,
                               plurality |-> td.plurality,
                               proper_noun |-> td.proper_noun],
              ai)

\* The dict analyze returns: {**ai_response, "dictionary": {...}}.
MergeResponse(ai, td) ==
    DictMerge(ai,
              "dictionary" :> [definitions |-> td.definitions,
                               origin |-> td.origin,
                               plurality |-> td.plurality,
                               proper_noun |-> td.proper_noun])

-----------------------------------------------------------------------------
(* The AI provider's replies and orjson.loads on them.                     *)

FullAnalysis ==
    [emotion |-> JStr("joy"), meaning_index |-> JNum("1"),
     contextual_meaning |-> JStr("sevinc duyan"), synonym |-> JStr("sevincli"),
     antonym |-> JStr("mutsuz"), example |-> JStr("Cok mutlu bir gun."),
     alternative |-> JStr("Bugun cok sevincliyim")]

FullAnalysisText ==
    "{\"emotion\": \"joy\", \"meaning_index\": 1, \"contextual_meaning\": \"sevinc duyan\", \"synonym\": \"sevincli\", \"antonym\": \"mutsuz\", \"example\": \"Cok mutlu bir gun.\", \"alternative\": \"Bugun cok sevincliyim\"}"

\* Message contents the provider may return.
AIContents ==
    { "not json", "[1, 2]", "null", "{}",
      "{\"emotion\": \"joy\", \"dictionary\": \"bogus\"}",
      FullAnalysisText }

\* orjson.loads: the parsed document, or no document for text that is not JSON.
loads(content) ==
    CASE content = "[1, 2]" -> [ok |-> TRUE, value |-> JArray(<<"1", "2">>)]
      [] content = "null" -> [ok |-> TRUE, value |-> JNull]
      [] content = "{}" -> [ok |-> TRUE, value |-> JObject(EmptyDict)]
      [] content = "{\"emotion\": \"joy\", \"dictionary\": \"bogus\"}" ->
           [ok |-> TRUE,
            value |-> JObject([emotion |-> JStr("joy"), dictionary |-> JStr("bogus")])]
      [] content = FullAnalysisText ->
           [ok |-> TRUE, value |-> JObject(FullAnalysis)]
      [] OTHER -> [ok |-> FALSE, value |-> JNull]

-----------------------------------------------------------------------------
(* Requests, exceptions, responses                                         *)

Values == {JStr("mutlu"), JStr(""), JNum("5")}

Bodies ==
    { JNull, JBool(FALSE), JBool(TRUE), JNumber(0), JNumber(5),
      JString(<<>>), JString(<<"abc">>), JString(<<"sentence", " ", "word">>),
      JArray(<<>>), JArray(<<"sentence">>), JArray(<<"sentence", "word">>) }
    \cup { JObject(o) : o \in UNION { [K -> Values] : K \in SUBSET {"sentence", "word"} } }

Exc(type, msg) == [type |-> type, msg |-> msg]
NoExc == Exc("", <<>>)

\* A message string, kept as the pieces it is formatted from.
JMsg(parts) == [t |-> "msg", parts |-> parts]

\* jsonify(body), status
JsonResponse(body, status) == [status |-> status, mimetype |-> "application/json", body |-> body]
\* What the framework answers when the view function lets an exception escape.
UnhandledResponse == [status |-> INTERNAL_SERVER_ERROR, mimetype |-> "text/html", body |-> EmptyDict]
NoResponse == [status |-> 0, mimetype |-> "", body |-> EmptyDict]

MissingParametersBody == "error" :> JStr("Missing required parameters")

\* Sentinel of tdk_data before get_data has returned (a real origin is never "").
NoData == [definitions |-> <<>>, origin |-> "", plurality |-> "", proper_noun |-> ""]

\* The answers the request model draws from: entries of three shapes.
SampleMeaningLists ==
    { ms \in MeaningLists :
        \/ ms = <<>>
        \/ Len(ms) = 1 /\ ms[1].order = 1
        \/ Len(ms) = 2 /\ ms[1].order = 2 }

SampleEntries ==
    { e \in Entries :
        /\ e.meanings \in SampleMeaningLists
        /\ e.plural = e.proper
        /\ e.plural <=> e.origin_language # NoLanguage }

SampleAnswers == SeqsUpTo(SampleEntries, MaxEntries)

-----------------------------------------------------------------------------
(* State                                                                   *)

VARIABLES
    handler,        \* which POST /analyze view is deployed: "create_app" or "routes"
    search_result,  \* what tdk.gts.search returns for the requested word
    pc,             \* position of the request in the handler
    data,           \* request.get_json()
    sentence,       \* first argument of analyze
    word,           \* second argument of analyze
    tdk_data,       \* value returned by TDKService.get_data
    context,        \* context built by analyze
    ai_context,     \* context received by AIService.analyze
    ai_response,    \* value returned by AIService.analyze
    result,         \* value returned by analyze
    exc,            \* exception in flight
    failure,        \* type of the exception first raised inside analyze
    response,       \* HTTP response sent
    tdkCalls,       \* calls of tdk.gts.search made for the request
    aiCalls         \* calls of the AI provider made for the request

vars ==
    <<handler, search_result, pc, data, sentence, word, tdk_data, context, ai_context,
      ai_response, result, exc, failure, response, tdkCalls, aiCalls>>

Fresh ==
    /\ data = JNull
    /\ sentence = JStr("")
    /\ word = JStr("")
    /\ tdk_data = NoData
    /\ context = EmptyDict
    /\ ai_context = EmptyDict
    /\ ai_response = JNull
    /\ result = EmptyDict
    /\ exc = NoExc
    /\ failure = ""
    /\ response = NoResponse
    /\ tdkCalls = 0
    /\ aiCalls = 0

Init ==
    /\ handler \in {"create_app", "routes"}
    /\ search_result \in SampleAnswers
    /\ pc = "idle"
    /\ Fresh

\* A POST /analyze arrives with a JSON body.
Request ==
    /\ pc = "idle"
    /\ \E body \in Bodies : data' = body
    /\ pc' = "view"
    /\ UNCHANGED <<handler, search_result, sentence, word, tdk_data, context, ai_context,
                   ai_response, result, exc, failure, response, tdkCalls, aiCalls>>

-----------------------------------------------------------------------------
(* create_app.analyze                                                      *)

\* Variant: the check on 'word' is left out, so data['word'] raises KeyError.
CheckParametersNoWord(d) ==
    IF ~Truthy(d) THEN "missing"
    ELSE IF ~SupportsIn(d) THEN "raises"
    ELSE IF ~Contains(d, "sentence") THEN "missing"
    ELSE IF d.kind # "object" THEN "raises"
    ELSE IF ~Contains(d, "word") THEN "raises"
    ELSE "ok"

\* Outcome of `not data or 'sentence' not in data or 'word' not in data`,
\* followed by the subscripts data['sentence'] and data['word']: the parameters
\* are missing, a TypeError is raised (`in` on an int or bool, a string subscript
\* on a list or str), or both values are at hand.
CheckParameters(d) ==
    IF ~Truthy(d) THEN "missing"
    ELSE IF ~SupportsIn(d) THEN "raises"
    ELSE IF ~Contains(d, "sentence") THEN "missing"
    ELSE IF ~Contains(d, "word") THEN "missing"
    ELSE IF d.kind # "object" THEN "raises"
    ELSE "ok"

\* The view up to the call of analyzer.analyze.
View ==
    /\ handler = "create_app"
    /\ pc = "view"
    /\ LET check == CheckParameters(data) IN
         CASE check = "missing" ->
                /\ response' = JsonResponse(MissingParametersBody, BAD_REQUEST)
                /\ pc' = "done"
                /\ UNCHANGED <<sentence, word>>
           [] check = "raises" ->
                /\ response' = UnhandledResponse
                /\ pc' = "done"
                /\ UNCHANGED <<sentence, word>>
           [] check = "ok" ->
                /\ sentence' = data.obj["sentence"]
                /\ word' = data.obj["word"]
                /\ pc' = "get_data"
                /\ UNCHANGED response
    /\ UNCHANGED <<handler, search_result, data, tdk_data, context, ai_context,
                   ai_response, result, exc, failure, tdkCalls, aiCalls>>

\* tdk_data = self.tdk_service.get_data(word)
GetData ==
    /\ pc = "get_data"
    /\ tdkCalls' = tdkCalls + 1
    /\ IF search_result = <<>>
       THEN /\ exc' = Exc("ValueError", <<"No TDK data found for: ", word.s>>)
            /\ failure' = "ValueError"
            /\ pc' = "except"
            /\ UNCHANGED tdk_data
       ELSE /\ tdk_data' = get_data(search_result)
            /\ pc' = "context"
            /\ UNCHANGED <<exc, failure>>
    /\ UNCHANGED <<handler, search_result, data, sentence, word, context, ai_context,
                   ai_response, result, response, aiCalls>>

\* tdk.gts.search itself fails (the provider is unreachable).
SearchFails ==
    /\ pc = "get_data"
    /\ tdkCalls' = tdkCalls + 1
    /\ exc' = Exc("ConnectionError", <<"Cannot connect to host">>)
    /\ failure' = "ConnectionError"
    /\ pc' = "except"
    /\ UNCHANGED <<handler, search_result, data, sentence, word, tdk_data, context,
                   ai_context, ai_response, result, response, aiCalls>>

BuildContext ==
    /\ pc = "context"
    /\ context' = Context(sentence, word, tdk_data)
    /\ pc' = "ai"
    /\ UNCHANGED <<handler, search_result, data, sentence, word, tdk_data, ai_context,
                   ai_response, result, exc, failure, response, tdkCalls, aiCalls>>

\* ai_response = self.ai_service.analyze(context): the completion returns a
\* message whose content parses, or does not parse, as JSON.
AIAnalyze ==
    /\ pc = "ai"
    /\ aiCalls' = aiCalls + 1
    /\ ai_context' = context
    /\ \E content \in AIContents :
         LET parsed == loads(content) IN
           IF parsed.ok
           THEN /\ ai_response' = parsed.value
                /\ pc' = "merge"
                /\ UNCHANGED <<exc, failure>>
           ELSE /\ exc' = Exc("JSONDecodeError", <<"unexpected character">>)
                /\ failure' = "JSONDecodeError"
                /\ pc' = "except"
                /\ UNCHANGED ai_response
    /\ UNCHANGED <<handler, search_result, data, sentence, word, tdk_data, context,
                   result, response, tdkCalls>>

\* self.client.chat.completions.create raises.
AICallFails ==
    /\ pc = "ai"
    /\ aiCalls' = aiCalls + 1
    /\ ai_context' = context
    /\ exc' = Exc("APIConnectionError", <<"Connection error.">>)
    /\ failure' = "APIConnectionError"
    /\ pc' = "except"
    /\ UNCHANGED <<handler, search_result, data, sentence, word, tdk_data, context,
                   ai_response, result, response, tdkCalls>>

\* return {**ai_response, "dictionary": {...}}; ** needs a mapping.
Merge ==
    /\ pc = "merge"
    /\ IF ai_response.kind = "object"
       THEN /\ result' = MergeResponse(ai_response.obj, tdk_data)
            /\ pc' = "return"
            /\ UNCHANGED <<exc, failure>>
       ELSE /\ exc' = Exc("TypeError", <<"object is not a mapping: ", ai_response.kind>>)
            /\ failure' = "TypeError"
            /\ pc' = "except"
            /\ UNCHANGED result
    /\ UNCHANGED <<handler, search_result, data, sentence, word, tdk_data, context,
                   ai_context, ai_response, response, tdkCalls, aiCalls>>

\* Variant: a failed AI call is tried once more before giving up.
ExceptRetry ==
    /\ pc = "except"
    /\ IF failure \in {"APIConnectionError", "JSONDecodeError"} /\ aiCalls < 2
       THEN /\ exc' = NoExc
            /\ pc' = "ai"
       ELSE /\ exc' = Exc("AnalysisError", exc.msg)
            /\ pc' = "raised"
    /\ UNCHANGED <<handler, search_result, data, sentence, word, tdk_data, context,
                   ai_context, ai_response, result, failure, response, tdkCalls, aiCalls>>

\* Variant: except ValueError, so other exception types leave analyze as they are.
ExceptValueErrorOnly ==
    /\ pc = "except"
    /\ IF exc.type \in {"ValueError", "JSONDecodeError"}
       THEN exc' = Exc("AnalysisError", exc.msg)
       ELSE exc' = exc
    /\ pc' = "raised"
    /\ UNCHANGED <<handler, search_result, data, sentence, word, tdk_data, context,
                   ai_context, ai_response, result, failure, response, tdkCalls, aiCalls>>

\* except Exception as e: raise AnalysisError(str(e))
Except ==
    /\ pc = "except"
    /\ exc' = Exc("AnalysisError", exc.msg)
    /\ pc' = "raised"
    /\ UNCHANGED <<handler, search_result, data, sentence, word, tdk_data, context,
                   ai_context, ai_response, result, failure, response, tdkCalls, aiCalls>>

\* return jsonify(result), HTTPStatus.OK
Respond ==
    /\ pc = "return"
    /\ response' = JsonResponse(result, OK)
    /\ pc' = "done"
    /\ UNCHANGED <<handler, search_result, data, sentence, word, tdk_data, context,
                   ai_context, ai_response, result, exc, failure, tdkCalls, aiCalls>>

\* Variant: the error answer also carries what the lookup found.
HandleAnalysisErrorWithData ==
    /\ pc = "raised"
    /\ response' = JsonResponse(MergeResponse("error" :> JMsg(exc.msg), tdk_data),
                                INTERNAL_SERVER_ERROR)
    /\ pc' = "done"
    /\ UNCHANGED <<handler, search_result, data, sentence, word, tdk_data, context,
                   ai_context, ai_response, result, exc, failure, tdkCalls, aiCalls>>

\* except AnalysisError as e: return jsonify({'error': str(e)}), 500
HandleAnalysisError ==
    /\ pc = "raised"
    /\ IF exc.type = "AnalysisError"
       THEN response' = JsonResponse("error" :> JMsg(exc.msg), INTERNAL_SERVER_ERROR)
       ELSE response' = UnhandledResponse
    /\ pc' = "done"
    /\ UNCHANGED <<handler, search_result, data, sentence, word, tdk_data, context,
                   ai_context, ai_response, result, exc, failure, tdkCalls, aiCalls>>

-----------------------------------------------------------------------------
(* routes.analyze, the blueprint variant of the view                       *)

RoutesCheckParameters(d) ==
    IF ~Truthy(d) THEN "missing"
    ELSE IF ~SupportsIn(d) THEN "raises"
    ELSE IF ~Contains(d, "sentence") THEN "missing"
    ELSE IF ~Contains(d, "word") THEN "missing"
    ELSE IF d.kind # "object" THEN "raises"
    ELSE "ok"

\* The flat analyzer the blueprint calls: the same lookup, context, AI call and
\* merge, a failure coming back as an {error: message} result.
TurkishLanguageAnalyzer_analyze(s, w, answer, content) ==
    IF answer = <<>>
    THEN "error" :> JMsg(<<"No TDK data found for: ", w.s>>)
    ELSE LET parsed == loads(content) IN
           IF parsed.ok /\ parsed.value.kind = "object"
           THEN MergeResponse(parsed.value.obj, get_data(answer))
           ELSE "error" :> JMsg(<<"AI reply is not a JSON object">>)

RoutesView ==
    /\ handler = "routes"
    /\ pc = "view"
    /\ LET check == RoutesCheckParameters(data) IN
         CASE check = "missing" ->
                /\ response' = JsonResponse(MissingParametersBody, BAD_REQUEST)
                /\ pc' = "done"
                /\ UNCHANGED <<sentence, word>>
           [] check = "raises" ->
                /\ response' = UnhandledResponse
                /\ pc' = "done"
                /\ UNCHANGED <<sentence, word>>
           [] check = "ok" ->
                /\ sentence' = data.obj["sentence"]
                /\ word' = data.obj["word"]
                /\ pc' = "routes_analyze"
                /\ UNCHANGED response
    /\ UNCHANGED <<handler, search_result, data, tdk_data, context, ai_context,
                   ai_response, result, exc, failure, tdkCalls, aiCalls>>

\* result = analyzer.analyze(...); return jsonify(result)
RoutesAnalyze ==
    /\ pc = "routes_analyze"
    /\ \E content \in AIContents :
         result' = TurkishLanguageAnalyzer_analyze(sentence, word, search_result, content)
    /\ response' = JsonResponse(result', OK)
    /\ tdkCalls' = tdkCalls + 1
    /\ aiCalls' = IF search_result = <<>> THEN aiCalls ELSE aiCalls + 1
    /\ pc' = "done"
    /\ UNCHANGED <<handler, search_result, data, sentence, word, tdk_data, context,
                   ai_context, ai_response, exc, failure>>

-----------------------------------------------------------------------------
Next ==
    \/ Request
    \/ View
    \/ RoutesView
    \/ RoutesAnalyze
    \/ GetData
    \/ SearchFails
    \/ BuildContext
    \/ AIAnalyze
    \/ AICallFails
    \/ Merge
    \/ Except
    \/ Respond
    \/ HandleAnalysisError

Spec == Init /\ [][Next]_vars

-----------------------------------------------------------------------------
(* TDKService.get_data on its own, over every provider answer: the state   *)
(* of a request that has passed the view's check and is about to look the  *)
(* word up.                                                                *)

InitLookup ==
    /\ handler = "create_app"
    /\ search_result \in Answers
    /\ pc = "get_data"
    /\ data = JObject([sentence |-> JStr("mutlu"), word |-> JStr("mutlu")])
    /\ sentence = JStr("mutlu")
    /\ word = JStr("mutlu")
    /\ tdk_data = NoData
    /\ context = EmptyDict
    /\ ai_context = EmptyDict
    /\ ai_response = JNull
    /\ result = EmptyDict
    /\ exc = NoExc
    /\ failure = ""
    /\ response = NoResponse
    /\ tdkCalls = 0
    /\ aiCalls = 0

NextLookup ==
    \/ GetData
    \/ SearchFails

SpecLookup == InitLookup /\ [][NextLookup]_vars

-----------------------------------------------------------------------------
(* Properties                                                              *)

\* Number of meanings held by the entries before entry i of an answer.
RECURSIVE MeaningsBefore(_, _)
MeaningsBefore(answer, i) ==
    IF i <= 1 THEN 0
    ELSE MeaningsBefore(answer, i - 1) + Len(answer[i - 1].meanings)

\* A JSON object that lacks the key sentence or the key word ({} included).
LacksParameter(d) ==
    d.kind = "object" /\ ~({"sentence", "word"} \subseteq DOMAIN d.obj)

\* A JSON object whose sentence and word are both non-empty strings.
WellFormed(d) ==
    /\ d.kind = "object"
    /\ {"sentence", "word"} \subseteq DOMAIN d.obj
    /\ \A k \in {"sentence", "word"} : d.obj[k].t = "str" /\ d.obj[k].s # ""

MissingParametersResponse == JsonResponse(MissingParametersBody, BAD_REQUEST)

\* C1: within one call of LanguageAnalyzer.analyze the AI call is issued only
\* after the lookup has returned a result; the lookup and the AI call are each
\* made at most once; a lookup that yields zero entries makes the call fail and
\* no AI call is ever made.
C1_LookupThenAIOnce ==
    [][handler = "create_app" =>
         /\ aiCalls' > aiCalls => (tdk_data # NoData /\ tdkCalls = 1 /\ aiCalls = 0)
         /\ tdkCalls' > tdkCalls => (tdkCalls = 0 /\ aiCalls = 0)
         /\ (tdkCalls' > tdkCalls /\ search_result = <<>>) =>
                (failure' # "" /\ tdk_data' = NoData /\ pc' = "except")
         /\ search_result = <<>> => aiCalls' = 0]_vars

\* The AI call of a request failed and the request was answered without a second call.
C1_Witness ==
    /\ handler = "create_app"
    /\ pc = "done"
    /\ tdkCalls = 1
    /\ aiCalls = 1
    /\ failure = "APIConnectionError"

\* C2: a POST /analyze whose body is {} or lacks the key sentence or the key
\* word is answered 400 {error: "Missing required parameters"}, and neither the
\* dictionary provider nor the AI provider is invoked for it.
C2_MissingParameters ==
    LacksParameter(data) =>
        /\ tdkCalls = 0
        /\ aiCalls = 0
        /\ pc \in {"view", "done"}
        /\ pc = "done" => response = MissingParametersResponse

\* A body holding only the key sentence has been answered.
C2_Witness ==
    /\ pc = "done"
    /\ data.kind = "object"
    /\ DOMAIN data.obj = {"sentence"}
    /\ response.status = BAD_REQUEST

\* C3: a body is accepted only when sentence and word are both non-empty
\* strings; any other JSON body is answered 400 {error: "Missing required
\* parameters"} and never reaches the dictionary lookup.
C3_OnlyNonEmptyStrings ==
    (pc # "idle" /\ ~WellFormed(data)) =>
        /\ tdkCalls = 0
        /\ pc \in {"view", "done"}
        /\ pc = "done" => response = MissingParametersResponse

\* C4: every failure inside LanguageAnalyzer.analyze leaves it as an
\* AnalysisError and no other exception type, and the view of create_app answers
\* 500 {error: message}; a failed analysis is never answered 200.
C4_FailureIsAnalysisError ==
    (handler = "create_app" /\ failure # "") =>
        /\ pc \in {"except", "raised", "done"}
        /\ pc = "raised" => exc.type = "AnalysisError"
        /\ pc = "done" =>
             response = JsonResponse("error" :> JMsg(exc.msg), INTERNAL_SERVER_ERROR)
        /\ response.status # OK

\* An AI reply that is JSON but no object has been answered 500.
C4_Witness ==
    /\ handler = "create_app"
    /\ pc = "done"
    /\ failure = "TypeError"
    /\ response.status = INTERNAL_SERVER_ERROR

\* C5: every outcome of LanguageAnalyzer.analyze is either the full merged
\* response (the AI reply's keys plus dictionary) or a failure carrying only an
\* error message; after a successful lookup and a failed AI call the response
\* holds no dictionary data.
C5_NoPartialResult ==
    (handler = "create_app" /\ tdkCalls > 0 /\ pc \in {"return", "raised", "done"}) =>
        \/ /\ failure = ""
           /\ tdk_data # NoData
           /\ ai_response.kind = "object"
           /\ DOMAIN result = DOMAIN ai_response.obj \cup {"dictionary"}
           /\ pc = "done" => response.body = result
        \/ /\ failure # ""
           /\ result = EmptyDict
           /\ pc = "done" =>
                (DOMAIN response.body = {"error"} /\ response.body["error"] = JMsg(exc.msg))

\* The lookup found definitions, the AI call failed, and the request was answered.
C5_Witness ==
    /\ handler = "create_app"
    /\ pc = "done"
    /\ tdk_data # NoData
    /\ tdk_data.definitions # <<>>
    /\ failure = "APIConnectionError"

\* C6: in every successful response the dictionary field equals the value
\* get_data returned (definitions, origin, plurality, proper_noun), also when the
\* AI reply carries a key named dictionary; every other key of the AI reply is in
\* the response unchanged.
C6_DictionaryIsLookup ==
    (handler = "create_app" /\ pc = "done" /\ response.status = OK) =>
        /\ DOMAIN response.body = DOMAIN ai_response.obj \cup {"dictionary"}
        /\ response.body["dictionary"] = tdk_data
        /\ \A k \in DOMAIN ai_response.obj \ {"dictionary"} :
             response.body[k] = ai_response.obj[k]

\* A success whose AI reply itself carried a dictionary key.
C6_Witness ==
    /\ handler = "create_app"
    /\ pc = "done"
    /\ response.status = OK
    /\ "dictionary" \in DOMAIN ai_response.obj
    /\ Len(tdk_data.definitions) > 1

\* C7: whenever get_data returns a result, its definitions list is non-empty.
C7_DefinitionsNeverEmpty ==
    tdk_data # NoData => tdk_data.definitions # <<>>

\* C8: for N >= 1 entries with M_i meanings each, get_data returns exactly the
\* sum of the M_i definitions, one per meaning, in entry order and within an
\* entry in meaning order, each with that meaning's order as number and that
\* meaning's text as meaning.
C8_OneDefinitionPerMeaning ==
    tdk_data # NoData =>
        LET defs == tdk_data.definitions
            n == Len(search_result)
        IN /\ Len(defs) = MeaningsBefore(search_result, n + 1)
           /\ \A i \in 1..n : \A j \in 1..Len(search_result[i].meanings) :
                LET d == defs[MeaningsBefore(search_result, i) + j]
                    m == search_result[i].meanings[j]
                IN d.number = m.order /\ d.meaning = m.meaning

\* Two entries, the first listing its meanings as order 2 then order 1.
C8_Witness ==
    /\ tdk_data # NoData
    /\ Len(search_result) = 2
    /\ Len(search_result[1].meanings) = 2
    /\ search_result[1].meanings[1].order = 2
    /\ Len(search_result[2].meanings) = 1

\* C9: the context passed to the AI provider has exactly the keys sentence, word
\* and dictionary; dictionary holds only definitions, each holding only number
\* and meaning; the definitions are the lookup's, same numbers and meanings in
\* the same order, none dropped or added.
C9_ContextIsReduced ==
    (handler = "create_app" /\ aiCalls > 0) =>
        /\ DOMAIN ai_context = {"sentence", "word", "dictionary"}
        /\ ai_context.sentence = sentence
        /\ ai_context.word = word
        /\ DOMAIN ai_context.dictionary = {"definitions"}
        /\ LET defs == ai_context.dictionary.definitions IN
             /\ Len(defs) = Len(tdk_data.definitions)
             /\ \A i \in 1..Len(defs) :
                  /\ DOMAIN defs[i] = {"number", "meaning"}
                  /\ defs[i].number = tdk_data.definitions[i].number
                  /\ defs[i].meaning = tdk_data.definitions[i].meaning

\* The AI was called for a lookup with several definitions, one with properties.
C9_Witness ==
    /\ handler = "create_app"
    /\ aiCalls > 0
    /\ Len(tdk_data.definitions) > 1
    /\ \E i \in 1..Len(tdk_data.definitions) : tdk_data.definitions[i].properties # <<>>

\* C10: origin, plurality and proper_noun of get_data's result are those of the
\* first returned entry alone (origin "Unspecified" when it has none), whatever
\* the later entries hold; definitions aggregate over all entries.
C10_FlagsFromFirstEntry ==
    tdk_data # NoData =>
        LET first == search_result[1] IN
          /\ tdk_data.origin = IF first.origin_language = NoLanguage
                               THEN "Unspecified"
                               ELSE first.origin_language.name
          /\ tdk_data.plurality = IF first.plural THEN "Plural" ELSE "Singular"
          /\ tdk_data.proper_noun = IF first.proper THEN "Proper Noun" ELSE "Common Noun"
          /\ Len(tdk_data.definitions) =
               MeaningsBefore(search_result, Len(search_result) + 1)

\* Two entries that differ in origin, plural and proper, the second with meanings.
C10_Witness ==
    /\ tdk_data # NoData
    /\ Len(search_result) = 2
    /\ search_result[1].origin_language = NoLanguage
    /\ search_result[2].origin_language # NoLanguage
    /\ ~search_result[1].plural
    /\ search_result[2].plural
    /\ search_result[1].proper
    /\ ~search_result[2].proper
    /\ search_result[2].meanings # <<>>

====
